---- MODULE Spec2Model ----
(***************************************************************************)
(* A model of the query-execution and session-command pipeline of the      *)
(* command-line SQL executor (src/main.py): DatabaseManager, QueryHistory  *)
(* and SQLExecutor.  Texts are TLA+ strings handled with Len, \o and       *)
(* SubSeq, so that strip/upper/lower/startswith/endswith/`in` are computed *)
(* character by character as Python computes them.                         *)
(***************************************************************************)
EXTENDS Integers, Sequences, FiniteSets, TLC

VARIABLES
    connection,         \* DatabaseManager.connection: NoneHandle or a native handle
    db_type,            \* DatabaseManager.db_type
    connection_params,  \* DatabaseManager.connection_params
    auto_commit,        \* DatabaseManager.auto_commit
    running,            \* SQLExecutor.running
    history,            \* QueryHistory.history (in memory)
    persisted,          \* contents of the history file
    live,               \* native handles opened and not closed
    db_working,         \* database contents as seen inside the open transaction
    db_committed,       \* database contents a fresh connection would see
    opened,             \* number of native handles opened so far
    now,                \* the wall clock
    pc,                 \* where SQLExecutor.run is: "auth", "loop" or "done"
    call,               \* what the last operation was given, did and returned
    config,             \* PasswordManager.config
    reads               \* lines read at the main prompt so far

vars == <<connection, db_type, connection_params, auto_commit, running,
          history, persisted, live, db_working, db_committed, opened, now, pc, call,
          config, reads>>

-----------------------------------------------------------------------------
(* Bounds of the model                                                     *)

MaxStatements == 1      \* statements sent to the driver in one session
MaxConnects == 1        \* native handles opened in one session
MaxAdds == 3            \* add_query calls on top of a loaded history
MaxLimit == 3           \* largest (and, negated, smallest) get_history limit tried

-----------------------------------------------------------------------------
(* Python values                                                           *)

NoneHandle == 0                         \* self.connection = None
NoneStr == "<None>"                     \* None where a str is expected
EOFError == "<EOFError>"                \* input() at end of input
KeyboardInterrupt == "<KeyboardInterrupt>"  \* input() interrupted

Max(a, b) == IF a >= b THEN a ELSE b
Min(a, b) == IF a <= b THEN a ELSE b

-----------------------------------------------------------------------------
(* str methods                                                             *)

LowerLetters == "abcdefghijklmnopqrstuvwxyz"
UpperLetters == "ABCDEFGHIJKLMNOPQRSTUVWXYZ"

Chr(s, i) == SubSeq(s, i, i)

\* str.isspace for one character
IsSpace(c) == c \in {" ", "\t", "\n", "\r", "\f"}

\* the tables of str.upper and str.lower on the letters
UpperTable == [i \in 1..26 |-> Chr(UpperLetters, i)]
LowerTable == [i \in 1..26 |-> Chr(LowerLetters, i)]
LowerSet == {LowerTable[i] : i \in 1..26}
UpperSet == {UpperTable[i] : i \in 1..26}

UpperChr(c) ==
    IF c \in LowerSet THEN UpperTable[CHOOSE i \in 1..26 : LowerTable[i] = c] ELSE c

LowerChr(c) ==
    IF c \in UpperSet THEN LowerTable[CHOOSE i \in 1..26 : UpperTable[i] = c] ELSE c

RECURSIVE upper(_)
upper(s) == IF Len(s) = 0 THEN "" ELSE UpperChr(Chr(s, 1)) \o upper(SubSeq(s, 2, Len(s)))

RECURSIVE lower(_)
lower(s) == IF Len(s) = 0 THEN "" ELSE LowerChr(Chr(s, 1)) \o lower(SubSeq(s, 2, Len(s)))

RECURSIVE lstrip(_)
lstrip(s) ==
    IF Len(s) > 0 /\ IsSpace(Chr(s, 1)) THEN lstrip(SubSeq(s, 2, Len(s))) ELSE s

RECURSIVE rstrip(_)
rstrip(s) ==
    IF Len(s) > 0 /\ IsSpace(Chr(s, Len(s))) THEN rstrip(SubSeq(s, 1, Len(s) - 1)) ELSE s

strip(s) == rstrip(lstrip(s))

\* s[start:] for a start >= 0
StrFrom(s, start) == SubSeq(s, Min(start, Len(s)) + 1, Len(s))

\* index of the first whitespace character of s, Len(s) + 1 when there is none
FirstSpace(s) ==
    IF \E i \in 1..Len(s) : IsSpace(Chr(s, i))
    THEN CHOOSE i \in 1..Len(s) : IsSpace(Chr(s, i)) /\ \A j \in 1..(i - 1) : ~IsSpace(Chr(s, j))
    ELSE Len(s) + 1

\* s.split(): the words between runs of whitespace
RECURSIVE split(_)
split(s) ==
    LET t == lstrip(s)
        k == FirstSpace(t)
    IN  IF Len(t) = 0 THEN <<>> ELSE <<SubSeq(t, 1, k - 1)>> \o split(StrFrom(t, k))

\* "\n".join(lines)
RECURSIVE join(_)
join(lines) ==
    IF Len(lines) = 0 THEN ""
    ELSE IF Len(lines) = 1 THEN lines[1]
    ELSE lines[1] \o "\n" \o join(Tail(lines))

\* sub in s
Contains(s, sub) ==
    \E i \in 1..(Len(s) - Len(sub) + 1) : SubSeq(s, i, i + Len(sub) - 1) = sub

startswith(s, p) == Len(p) <= Len(s) /\ SubSeq(s, 1, Len(p)) = p

endswith(s, p) == Len(p) <= Len(s) /\ SubSeq(s, Len(s) - Len(p) + 1, Len(s)) = p

\* seq[start:] for a Python index start (negative counts from the end)
SliceFrom(seq, start) ==
    LET n == Len(seq)
        lo == IF start < 0 THEN Max(n + start, 0) ELSE Min(start, n)
    IN  SubSeq(seq, lo + 1, n)

-----------------------------------------------------------------------------
(* QueryHistory                                                            *)

HistoryKeep == 100      \* save_history keeps the last 100 entries

WriteOutcomes == {"ok", "open_fails", "dump_fails"}

\* The history file: absent, holding a JSON list, or cut short by a failed dump.
NoFile == [status |-> "absent", entries |-> <<>>]
JsonFile(entries) == [status |-> "json", entries |-> entries]
CorruptFile == [status |-> "corrupt", entries |-> <<>>]

\* load_history: the list in the file; [] when the file is absent or unreadable
load_history(file) == IF file.status = "json" THEN file.entries ELSE <<>>

\* save_history with the last 100 entries replaced by the first 100
save_history_head(S, write) ==
    CASE write = "ok" -> [S EXCEPT !.persisted = JsonFile(SubSeq(S.history, 1, Min(Len(S.history), HistoryKeep)))]
      [] write = "open_fails" -> S
      [] OTHER -> [S EXCEPT !.persisted = CorruptFile]

\* save_history: open(history_file, 'w') and json.dump(self.history[-100:]);
\* an exception is printed as a warning and swallowed.
save_history(S, write) ==
    CASE write = "ok" -> [S EXCEPT !.persisted = JsonFile(SliceFrom(S.history, -HistoryKeep))]
      [] write = "open_fails" -> S
      [] OTHER -> [S EXCEPT !.persisted = CorruptFile]

\* add_query that saves without appending
add_query_no_append(S, query, execution_time, rows_affected, error, write) ==
    save_history(S, write)

\* add_query: append the entry, then save
add_query(S, query, execution_time, rows_affected, error, write) ==
    LET history_entry == [timestamp |-> S.now,
                          query |-> strip(query),
                          execution_time |-> execution_time,
                          rows_affected |-> rows_affected,
                          error |-> error]
    IN  save_history([S EXCEPT !.history = Append(S.history, history_entry)], write)

\* get_history: self.history[-limit:]
get_history(S, limit) == SliceFrom(S.history, -limit)

\* clear_history that empties the list and does not save
clear_history_memory_only(S, write) == [S EXCEPT !.history = <<>>]

\* clear_history
clear_history(S, write) == save_history([S EXCEPT !.history = <<>>], write)

-----------------------------------------------------------------------------
(* SQLExecutor.format_tabular_output                                       *)

\* The box-drawing characters of the source, each written here as one ASCII
\* character: a TLA+ string holds ASCII only, and the formatter counts
\* characters.
BoxHorizontal == "-"        \* U+2500
BoxVertical == "|"          \* U+2502
BoxCorner == "+"            \* U+250C, U+2510, U+2514, U+2518
BoxJunction == "+"          \* U+251C, U+2524, U+252C, U+2534, U+253C

\* The values a driver puts in a row: a str, an int or None.
StrCell(s) == [type |-> "str", value |-> s]
IntCell(n) == [type |-> "int", value |-> n]
NoneCell == [type |-> "None", value |-> 0]

DecimalDigits == "0123456789"

\* str(n) for an int n >= 0
RECURSIVE str_nat(_)
str_nat(n) ==
    IF n < 10 THEN Chr(DecimalDigits, n + 1)
    ELSE str_nat(n \div 10) \o Chr(DecimalDigits, (n % 10) + 1)

\* str(cell)
str(cell) ==
    CASE cell.type = "str" -> cell.value
      [] cell.type = "int" ->
            IF cell.value < 0 THEN "-" \o str_nat(0 - cell.value) ELSE str_nat(cell.value)
      [] OTHER -> "None"

\* ch * n
RECURSIVE Times(_, _)
Times(ch, n) == IF n <= 0 THEN "" ELSE ch \o Times(ch, n - 1)

\* s.ljust(width)
ljust(s, width) == s \o Times(" ", width - Len(s))

\* sep.join(items)
RECURSIVE sep_join(_, _)
sep_join(sep, items) ==
    IF Len(items) = 0 THEN ""
    ELSE IF Len(items) = 1 THEN items[1]
    ELSE items[1] \o sep \o sep_join(sep, Tail(items))

\* max(len(str(row[i])) for row in all_rows)
RECURSIVE max_width(_, _)
max_width(all_rows, i) ==
    IF Len(all_rows) = 1 THEN Len(str(all_rows[1][i]))
    ELSE Max(Len(str(all_rows[1][i])), max_width(Tail(all_rows), i))

NoRowsLines == <<BoxCorner \o BoxHorizontal \o " Query Result",
                 BoxVertical \o "  Status: No rows found",
                 BoxVertical \o "  Rows: 0",
                 BoxCorner \o BoxHorizontal \o " End of result">>

\* col_widths with one blank of padding instead of two
col_widths_one_blank(all_rows) ==
    [i \in 1..Len(all_rows[1]) |-> max_width(all_rows, i) + 1]

\* col_widths
col_widths(all_rows) ==
    [i \in 1..Len(all_rows[1]) |-> max_width(all_rows, i) + 2]

\* The table of a result that is not empty.  row[i] raises IndexError when a
\* row is shorter than the first row of all_rows, and col_widths[i] when it is
\* longer.
Table(data, headers) ==
    LET header_cells == [i \in 1..Len(headers) |-> StrCell(headers[i])]
        all_rows == IF headers # <<>> THEN <<header_cells>> \o data ELSE data
        widths == col_widths(all_rows)
        Border == BoxCorner
                    \o sep_join(BoxJunction, [i \in 1..Len(widths) |-> Times(BoxHorizontal, widths[i])])
                    \o BoxCorner
        Row(row) == BoxVertical
                      \o sep_join(BoxVertical, [i \in 1..Len(row) |-> ljust(str(row[i]), widths[i])])
                      \o BoxVertical
        result == (IF headers # <<>> THEN <<Border, Row(header_cells), Border>> ELSE <<>>)
                    \o [k \in 1..Len(data) |-> Row(data[k])]
                    \o <<Border>>
    IN  IF \E k \in 1..Len(all_rows) : Len(all_rows[k]) # Len(all_rows[1])
        THEN [exc |-> "IndexError", lines |-> <<>>, text |-> ""]
        ELSE [exc |-> NoneStr, lines |-> result, text |-> join(result)]

\* format_tabular_output giving the no-rows message only when there are no headers either
format_tabular_output_unless_headers(data, headers) ==
    IF data = <<>> /\ headers = <<>>
    THEN [exc |-> NoneStr, lines |-> NoRowsLines, text |-> join(NoRowsLines)]
    ELSE Table(data, headers)

\* format_tabular_output: the text returned, the lines it is made of, and the
\* exception that left the function, if any
format_tabular_output(data, headers) ==
    IF data = <<>>
    THEN [exc |-> NoneStr, lines |-> NoRowsLines, text |-> join(NoRowsLines)]
    ELSE Table(data, headers)

-----------------------------------------------------------------------------
(* SQLExecutor: the safety gate                                            *)

DeletePrompt == "Continue with DELETE ALL? (y/N): "
DropPrompt == "Continue with DROP TABLE? (y/N): "

\* get_user_confirmation that takes anything but a refusal for a yes
get_user_confirmation_lax(message, answer) ==
    CASE answer = KeyboardInterrupt -> [exc |-> NoneStr, value |-> FALSE]
      [] answer = EOFError -> [exc |-> EOFError, value |-> FALSE]
      [] OTHER -> [exc |-> NoneStr, value |-> lower(strip(answer)) \notin {"n", "no"}]

\* get_user_confirmation: `answer` is what input(message) gives, a line or an
\* exception.  KeyboardInterrupt is caught; EOFError propagates.
get_user_confirmation(message, answer) ==
    CASE answer = KeyboardInterrupt -> [exc |-> NoneStr, value |-> FALSE]
      [] answer = EOFError -> [exc |-> EOFError, value |-> FALSE]
      [] OTHER -> [exc |-> NoneStr, value |-> lower(strip(answer)) \in {"y", "yes"}]

\* validate_sql_safety that returns at the first pattern it recognises
validate_sql_safety_first_only(query, answers) ==
    LET query_upper == strip(upper(query))
        c == get_user_confirmation(DeletePrompt, answers[1])
        d == get_user_confirmation(DropPrompt, answers[1])
    IN  IF Contains(query_upper, "DELETE") /\ ~Contains(query_upper, "WHERE")
        THEN [exc |-> c.exc, is_safe |-> c.exc = NoneStr /\ c.value,
              message |-> IF c.exc = NoneStr /\ ~c.value
                          THEN "DELETE operation cancelled by user" ELSE "",
              prompts |-> <<DeletePrompt>>]
        ELSE IF Contains(query_upper, "DROP TABLE")
        THEN [exc |-> d.exc, is_safe |-> d.exc = NoneStr /\ d.value,
              message |-> IF d.exc = NoneStr /\ ~d.value
                          THEN "DROP TABLE operation cancelled by user" ELSE "",
              prompts |-> <<DropPrompt>>]
        ELSE [exc |-> NoneStr, is_safe |-> TRUE, message |-> "", prompts |-> <<>>]

\* validate_sql_safety that looks at the text as typed, not upper-cased
validate_sql_safety_case(query, answers) ==
    LET query_upper == strip(query)
        is_delete == Contains(query_upper, "DELETE") /\ ~Contains(query_upper, "WHERE")
        is_drop == Contains(query_upper, "DROP TABLE")
        c1 == get_user_confirmation(DeletePrompt, answers[1])
        rest == IF is_delete THEN Tail(answers) ELSE answers
        c2 == get_user_confirmation(DropPrompt, rest[1])
        shown1 == IF is_delete THEN <<DeletePrompt>> ELSE <<>>
    IN  IF is_delete /\ c1.exc # NoneStr
        THEN [exc |-> c1.exc, is_safe |-> FALSE, message |-> "", prompts |-> shown1]
        ELSE IF is_delete /\ ~c1.value
        THEN [exc |-> NoneStr, is_safe |-> FALSE,
              message |-> "DELETE operation cancelled by user", prompts |-> shown1]
        ELSE IF is_drop /\ c2.exc # NoneStr
        THEN [exc |-> c2.exc, is_safe |-> FALSE, message |-> "",
              prompts |-> shown1 \o <<DropPrompt>>]
        ELSE IF is_drop /\ ~c2.value
        THEN [exc |-> NoneStr, is_safe |-> FALSE,
              message |-> "DROP TABLE operation cancelled by user",
              prompts |-> shown1 \o <<DropPrompt>>]
        ELSE [exc |-> NoneStr, is_safe |-> TRUE, message |-> "",
              prompts |-> shown1 \o (IF is_drop THEN <<DropPrompt>> ELSE <<>>)]

\* validate_sql_safety: `answers` is what the operator will type at the prompts,
\* in order.  The result is the returned pair, the prompts shown, and the
\* exception that left the function, if any.
validate_sql_safety(query, answers) ==
    LET query_upper == strip(upper(query))
        is_delete == Contains(query_upper, "DELETE") /\ ~Contains(query_upper, "WHERE")
        is_drop == Contains(query_upper, "DROP TABLE")
        c1 == get_user_confirmation(DeletePrompt, answers[1])
        rest == IF is_delete THEN Tail(answers) ELSE answers
        c2 == get_user_confirmation(DropPrompt, rest[1])
        shown1 == IF is_delete THEN <<DeletePrompt>> ELSE <<>>
    IN  IF is_delete /\ c1.exc # NoneStr
        THEN [exc |-> c1.exc, is_safe |-> FALSE, message |-> "", prompts |-> shown1]
        ELSE IF is_delete /\ ~c1.value
        THEN [exc |-> NoneStr, is_safe |-> FALSE,
              message |-> "DELETE operation cancelled by user", prompts |-> shown1]
        ELSE IF is_drop /\ c2.exc # NoneStr
        THEN [exc |-> c2.exc, is_safe |-> FALSE, message |-> "",
              prompts |-> shown1 \o <<DropPrompt>>]
        ELSE IF is_drop /\ ~c2.value
        THEN [exc |-> NoneStr, is_safe |-> FALSE,
              message |-> "DROP TABLE operation cancelled by user",
              prompts |-> shown1 \o <<DropPrompt>>]
        ELSE [exc |-> NoneStr, is_safe |-> TRUE, message |-> "",
              prompts |-> shown1 \o (IF is_drop THEN <<DropPrompt>> ELSE <<>>)]

-----------------------------------------------------------------------------
(* The program state as one value, and the record of one operation         *)

State == [connection |-> connection, db_type |-> db_type,
          connection_params |-> connection_params, auto_commit |-> auto_commit,
          running |-> running, history |-> history, persisted |-> persisted,
          live |-> live, db_working |-> db_working, db_committed |-> db_committed,
          opened |-> opened, now |-> now, pc |-> pc, call |-> call,
          config |-> config, reads |-> reads]

\* Nothing done yet by operation `op` on `input`.
NewCall(op, input) ==
    [op |-> op, input |-> input,
     queries |-> <<>>,       \* the texts execute_query was called with
     gate |-> 0,             \* calls of validate_sql_safety
     prompts |-> <<>>,       \* confirmation prompts shown
     answers |-> <<>>,       \* what the operator answered to them
     driver |-> <<>>,        \* calls made on the connection and its cursor
     exc |-> NoneStr,        \* the exception that left the operation
     raised |-> "none",      \* the driver call whose exception was caught
     returned |-> FALSE,     \* execute_query returned a pair
     success |-> FALSE, kind |-> "None",
     rows |-> <<>>, headers |-> <<>>, count |-> 0, message |-> "",
     listing |-> <<>>,       \* the entries show_history printed
     args |-> <<>>,          \* what the driver's connect() was given
     lines |-> <<>>]         \* what was read at the continuation prompt

-----------------------------------------------------------------------------
(* DatabaseManager                                                         *)

SQLite == "SQLite"
MySQL == "MySQL"
PostgreSQL == "PostgreSQL"

\* is_connected that takes every session for connected
is_connected_always(S) == TRUE

\* is_connected
is_connected(S) == S.connection # NoneHandle /\ S.connection # NoneHandle

\* the new handle bound without noting what it is a connection to
Opened_keeps_params(S, type, params) ==
    [S EXCEPT !.connection = S.opened + 1,
              !.opened = S.opened + 1,
              !.live = S.live \cup {S.opened + 1},
              !.db_type = type,
              !.db_working = S.db_committed,
              !.call.driver = Append(S.call.driver, "connect")]

\* A driver's connect() returned a new native handle; the new session sees the
\* committed contents only.
Opened(S, type, params) ==
    [S EXCEPT !.connection = S.opened + 1,
              !.opened = S.opened + 1,
              !.live = S.live \cup {S.opened + 1},
              !.db_type = type,
              !.connection_params = params,
              !.db_working = S.db_committed,
              !.call.driver = Append(S.call.driver, "connect")]

\* the arguments the driver's connect() is called with
Connecting(S, args) == [S EXCEPT !.call.args = args]

\* connect_sqlite; `outcome` is what sqlite3.connect does
connect_sqlite(S, database_path, outcome) ==
    LET S0 == Connecting(S, <<database_path>>)
    IN  IF outcome = "ok"
        THEN Opened(S0, SQLite, << <<"path", database_path>> >>)
        ELSE [S0 EXCEPT !.call.driver = Append(S0.call.driver, "connect")]

\* connect_mysql forgetting the connection it had when the new one fails
connect_mysql_drops_on_failure(S, host, user, password, database, port, outcome) ==
    LET S0 == Connecting(S, <<host, user, password, database>>)
    IN  CASE outcome = "ok" ->
                Opened(S0, MySQL, << <<"host", host>>, <<"user", user>>,
                                     <<"database", database>>, <<"port", port>> >>)
          [] outcome = "import_error" -> [S EXCEPT !.connection = NoneHandle]
          [] OTHER -> [S0 EXCEPT !.call.driver = Append(S0.call.driver, "connect"),
                                 !.connection = NoneHandle]

\* connect_mysql; "import_error" is the missing mysql.connector
connect_mysql(S, host, user, password, database, port, outcome) ==
    LET S0 == Connecting(S, <<host, user, password, database>>)
    IN  CASE outcome = "ok" ->
                Opened(S0, MySQL, << <<"host", host>>, <<"user", user>>,
                                     <<"database", database>>, <<"port", port>> >>)
          [] outcome = "import_error" -> S
          [] OTHER -> [S0 EXCEPT !.call.driver = Append(S0.call.driver, "connect")]

\* connect_postgresql; "import_error" is the missing psycopg2
connect_postgresql(S, host, user, password, database, port, outcome) ==
    LET S0 == Connecting(S, <<host, user, password, database>>)
    IN  CASE outcome = "ok" ->
                Opened(S0, PostgreSQL, << <<"host", host>>, <<"user", user>>,
                                          <<"database", database>>, <<"port", port>> >>)
          [] outcome = "import_error" -> S
          [] OTHER -> [S0 EXCEPT !.call.driver = Append(S0.call.driver, "connect")]

\* disconnect
disconnect(S) ==
    IF S.connection # NoneHandle
    THEN [S EXCEPT !.live = S.live \ {S.connection},
                   !.connection = NoneHandle,
                   !.call.driver = Append(S.call.driver, "close")]
    ELSE S

-----------------------------------------------------------------------------
(* PasswordManager                                                         *)

max_attempts == 3       \* authenticate: max_attempts = 3
MinPassword == 6        \* setup_password, change_password: len(password) < 6

\* the configuration load_config falls back to
DefaultConfig == [password_hash |-> NoneStr, setup_complete |-> FALSE]

\* the configuration file: absent, unreadable, or holding a configuration
NoConfig == [status |-> "absent", config |-> DefaultConfig]
CorruptConfig == [status |-> "corrupt", config |-> DefaultConfig]
ConfigFile(c) == [status |-> "json", config |-> c]

\* load_config
load_config(file) == IF file.status = "json" THEN file.config ELSE DefaultConfig

\* hash_password: the digest, one per password
hash_password(password) == "sha256(" \o password \o ")"

\* verify_password
verify_password(S, password) ==
    IF S.config.password_hash = NoneStr THEN FALSE
    ELSE hash_password(password) = S.config.password_hash

\* getpass.getpass(prompt) gave `entry`
Prompted(S, prompt, entry) ==
    [S EXCEPT !.call.prompts = Append(S.call.prompts, prompt),
              !.call.answers = Append(S.call.answers, entry)]

\* A method returned `value`, or `exc` left it.
Returned(S, value) == [S |-> S, value |-> value, exc |-> NoneStr]
Raised(S, exc) == [S |-> S, value |-> FALSE, exc |-> exc]

\* setup_password's loop; `entries` is what getpass gives, call after call, and
\* `save` what save_config does
RECURSIVE setup_loop(_, _, _)
setup_loop(S, entries, save) ==
    IF Len(entries) = 0 THEN Raised(S, EOFError)
    ELSE LET S1 == Prompted(S, "Enter new password: ", entries[1])
         IN  IF entries[1] = EOFError THEN Raised(S1, EOFError)
             ELSE IF entries[1] = KeyboardInterrupt THEN Returned(S1, FALSE)
             ELSE IF Len(entries[1]) < MinPassword THEN setup_loop(S1, Tail(entries), save)
             ELSE IF Len(entries) = 1 THEN Raised(S1, EOFError)
             ELSE LET S2 == Prompted(S1, "Confirm password: ", entries[2])
                  IN  IF entries[2] = EOFError THEN Raised(S2, EOFError)
                      ELSE IF entries[2] = KeyboardInterrupt THEN Returned(S2, FALSE)
                      ELSE IF entries[1] # entries[2]
                      THEN setup_loop(S2, Tail(Tail(entries)), save)
                      ELSE Returned([S2 EXCEPT !.config =
                                        [password_hash |-> hash_password(entries[1]),
                                         setup_complete |-> TRUE]],
                                    save = "ok")

\* setup_password
setup_password(S, entries, save) ==
    IF S.config.setup_complete THEN Returned(S, TRUE) ELSE setup_loop(S, entries, save)

\* authenticate's loop that allows one attempt more
RECURSIVE auth_loop_one_more(_, _, _)
auth_loop_one_more(S, attempts, entries) ==
    IF ~(attempts <= max_attempts) THEN Returned(S, FALSE)
    ELSE IF Len(entries) = 0 THEN Raised(S, EOFError)
    ELSE LET S1 == Prompted(S, "Enter password: ", entries[1])
         IN  IF entries[1] = EOFError THEN Raised(S1, EOFError)
             ELSE IF entries[1] = KeyboardInterrupt THEN Returned(S1, FALSE)
             ELSE IF verify_password(S1, entries[1]) THEN Returned(S1, TRUE)
             ELSE auth_loop_one_more(S1, attempts + 1, Tail(entries))

\* authenticate's loop: while attempts < max_attempts
RECURSIVE auth_loop(_, _, _)
auth_loop(S, attempts, entries) ==
    IF ~(attempts < max_attempts) THEN Returned(S, FALSE)
    ELSE IF Len(entries) = 0 THEN Raised(S, EOFError)
    ELSE LET S1 == Prompted(S, "Enter password: ", entries[1])
         IN  IF entries[1] = EOFError THEN Raised(S1, EOFError)
             ELSE IF entries[1] = KeyboardInterrupt THEN Returned(S1, FALSE)
             ELSE IF verify_password(S1, entries[1]) THEN Returned(S1, TRUE)
             ELSE auth_loop(S1, attempts + 1, Tail(entries))

\* authenticate
authenticate(S, entries, save) ==
    IF ~S.config.setup_complete THEN setup_password(S, entries, save)
    ELSE auth_loop(S, 0, entries)

\* change_password's loop for the new password
RECURSIVE change_loop(_, _, _)
change_loop(S, entries, save) ==
    IF Len(entries) = 0 THEN Raised(S, EOFError)
    ELSE LET S1 == Prompted(S, "Enter new password: ", entries[1])
         IN  IF entries[1] = EOFError THEN Raised(S1, EOFError)
             ELSE IF entries[1] = KeyboardInterrupt THEN Returned(S1, FALSE)
             ELSE IF Len(entries[1]) < MinPassword THEN change_loop(S1, Tail(entries), save)
             ELSE IF Len(entries) = 1 THEN Raised(S1, EOFError)
             ELSE LET S2 == Prompted(S1, "Confirm new password: ", entries[2])
                  IN  IF entries[2] = EOFError THEN Raised(S2, EOFError)
                      ELSE IF entries[2] = KeyboardInterrupt THEN Returned(S2, FALSE)
                      ELSE IF entries[1] # entries[2]
                      THEN change_loop(S2, Tail(Tail(entries)), save)
                      ELSE Returned([S2 EXCEPT !.config.password_hash =
                                                   hash_password(entries[1])],
                                    save = "ok")

\* change_password
change_password(S, entries, save) ==
    IF ~S.config.setup_complete THEN Returned(S, FALSE)
    ELSE IF Len(entries) = 0 THEN Raised(S, EOFError)
    ELSE LET S1 == Prompted(S, "Enter current password: ", entries[1])
         IN  IF entries[1] = EOFError THEN Raised(S1, EOFError)
             ELSE IF entries[1] = KeyboardInterrupt THEN Returned(S1, FALSE)
             ELSE IF ~verify_password(S1, entries[1]) THEN Returned(S1, FALSE)
             ELSE change_loop(S1, Tail(entries), save)

-----------------------------------------------------------------------------
(* SQLExecutor.execute_query                                               *)

\* What the environment does during one operation:
\*   answers   the operator's input at the confirmation prompts, in order
\*   drv       what the driver does with the statement
\*   write     what writing the history file does
\*   duration  the time the driver takes
\* drv = [raises, error, rows, description, rowcount, changes]: the call that
\* raises ("none" when none does) and its message, the rows fetchall gives, the
\* column names of cursor.description (<<>> for None), cursor.rowcount, and
\* whether the statement changes the database contents.

DataKeywords == {"SELECT", "SHOW", "DESCRIBE", "EXPLAIN"}

\* the prefix test on the text as typed, not upper-cased
ReturnsData_case_sensitive(query) ==
    \E k \in DataKeywords : startswith(strip(query), k)

\* query_upper.startswith(('SELECT', 'SHOW', 'DESCRIBE', 'EXPLAIN'))
ReturnsData(query) ==
    LET query_upper == strip(upper(query))
    IN  \E k \in DataKeywords : startswith(query_upper, k)

\* The driver was called: note the call.
Drv(S, name) == [S EXCEPT !.call.driver = Append(S.call.driver, name)]

\* cursor.execute(query) succeeded: its effect on the open transaction.
Executed(S, drv) ==
    [Drv(S, "execute") EXCEPT !.db_working = IF drv.changes THEN S.db_working + 1 ELSE S.db_working]

\* connection.commit() succeeded.
Committed(S) == [Drv(S, "commit") EXCEPT !.db_committed = S.db_working]

\* connection.rollback() succeeded.
RolledBack(S) == [Drv(S, "rollback") EXCEPT !.db_working = S.db_committed]

\* return success, payload
Return(S, success, kind, rows, headers, count, message) ==
    [S EXCEPT !.call.returned = TRUE, !.call.success = success, !.call.kind = kind,
              !.call.rows = rows, !.call.headers = headers, !.call.count = count,
              !.call.message = message]

\* The time the driver took has passed.
Elapsed(S, env) == [S EXCEPT !.now = S.now + env.duration]

\* the except block dropping the connection it failed on
Except_drops_connection(S, query, env) ==
    LET error_msg == "SQL Error: " \o env.drv.error
        T == Elapsed(S, env)
        U == [T EXCEPT !.call.raised = env.drv.raises, !.connection = NoneHandle]
    IN  Return(add_query(U, query, env.duration, 0, error_msg, env.write),
               FALSE, "Failure", <<>>, <<>>, 0, error_msg)

\* except Exception as e: record the failure and return it
Except(S, query, env) ==
    LET error_msg == "SQL Error: " \o env.drv.error
        T == Elapsed(S, env)
        U == [T EXCEPT !.call.raised = env.drv.raises]
    IN  Return(add_query(U, query, env.duration, 0, error_msg, env.write),
               FALSE, "Failure", <<>>, <<>>, 0, error_msg)

\* the branch for statements that return rows
ExecuteData(S, query, env) ==
    LET drv == env.drv
        S1 == Executed(S, drv)
        S2 == Drv(S1, "fetchall")
        results == drv.rows
        headers == IF S.db_type \in {SQLite, MySQL, PostgreSQL} THEN drv.description ELSE <<>>
        S3 == Elapsed(S2, env)
    IN  IF drv.raises = "execute" THEN Except(Drv(S, "execute"), query, env)
        ELSE IF drv.raises = "fetchall" THEN Except(S2, query, env)
        ELSE Return(add_query(S3, query, env.duration, Len(results), NoneStr, env.write),
                    TRUE, "RowSet", results, headers, 0, "")

\* the branch for statements that return no rows, committing whatever the flag says
ExecuteEffect_always_commit(S, query, env) ==
    LET drv == env.drv
        S1 == Executed(S, drv)
        rows_affected == drv.rowcount
        S2 == Committed(S1)
        S3 == Elapsed(S2, env)
    IN  IF drv.raises = "execute" THEN Except(Drv(S, "execute"), query, env)
        ELSE IF drv.raises = "commit" THEN Except(Drv(S1, "commit"), query, env)
        ELSE Return(add_query(S3, query, env.duration, rows_affected, NoneStr, env.write),
                    TRUE, "Affected", <<>>, <<>>, rows_affected, "")

\* the branch for statements that return no rows
ExecuteEffect(S, query, env) ==
    LET drv == env.drv
        S1 == Executed(S, drv)
        rows_affected == drv.rowcount
        S2 == IF S.auto_commit THEN Committed(S1) ELSE S1
        S3 == Elapsed(S2, env)
    IN  IF drv.raises = "execute" THEN Except(Drv(S, "execute"), query, env)
        ELSE IF S.auto_commit /\ drv.raises = "commit" THEN Except(Drv(S1, "commit"), query, env)
        ELSE Return(add_query(S3, query, env.duration, rows_affected, NoneStr, env.write),
                    TRUE, "Affected", <<>>, <<>>, rows_affected, "")

\* the try block
Try(S, query, env) ==
    LET S1 == Drv(S, "cursor")
    IN  IF env.drv.raises = "cursor" THEN Except(S1, query, env)
        ELSE IF ReturnsData(query) THEN ExecuteData(S1, query, env)
        ELSE ExecuteEffect(S1, query, env)

\* execute_query that records a vetoed statement like a failed one
execute_query_records_veto(S, query, env) ==
    LET S0 == [S EXCEPT !.call.queries = Append(S.call.queries, query)]
        v == validate_sql_safety(query, env.answers)
        S1 == [S0 EXCEPT !.call.gate = S0.call.gate + 1,
                         !.call.prompts = S0.call.prompts \o v.prompts,
                         !.call.answers = S0.call.answers \o SubSeq(env.answers, 1, Len(v.prompts))]
    IN  IF ~is_connected(S0)
        THEN Return(S0, FALSE, "Failure", <<>>, <<>>, 0, "No database connection")
        ELSE IF v.exc # NoneStr THEN [S1 EXCEPT !.call.exc = v.exc]
        ELSE IF ~v.is_safe
        THEN Return(add_query(S1, query, 0, 0, v.message, env.write),
                    FALSE, "Failure", <<>>, <<>>, 0, v.message)
        ELSE Try(S1, query, env)

\* execute_query
execute_query(S, query, env) ==
    LET S0 == [S EXCEPT !.call.queries = Append(S.call.queries, query)]
        v == validate_sql_safety(query, env.answers)
        S1 == [S0 EXCEPT !.call.gate = S0.call.gate + 1,
                         !.call.prompts = S0.call.prompts \o v.prompts,
                         !.call.answers = S0.call.answers \o SubSeq(env.answers, 1, Len(v.prompts))]
    IN  IF ~is_connected(S0)
        THEN Return(S0, FALSE, "Failure", <<>>, <<>>, 0, "No database connection")
        ELSE IF v.exc # NoneStr THEN [S1 EXCEPT !.call.exc = v.exc]
        ELSE IF ~v.is_safe THEN Return(S1, FALSE, "Failure", <<>>, <<>>, 0, v.message)
        ELSE Try(S1, query, env)

-----------------------------------------------------------------------------
(* SQLExecutor: the session commands                                       *)

HistoryShown == 10      \* get_history's default limit, used by show_history

\* show_history: print what get_history() returns
show_history(S) == [S EXCEPT !.call.listing = get_history(S, HistoryShown)]

\* show_tables
show_tables(S, env) ==
    IF ~is_connected(S) THEN S
    ELSE CASE S.db_type = SQLite ->
                execute_query(S, "SELECT name FROM sqlite_master WHERE type='table';", env)
           [] S.db_type = MySQL -> execute_query(S, "SHOW TABLES;", env)
           [] S.db_type = PostgreSQL ->
                execute_query(S, "SELECT tablename FROM pg_tables WHERE schemaname = 'public';", env)
           [] OTHER -> S

\* describe_table
describe_table(S, table_name, env) ==
    IF ~is_connected(S) THEN S
    ELSE CASE S.db_type = SQLite ->
                execute_query(S, "PRAGMA table_info(" \o table_name \o ");", env)
           [] S.db_type = MySQL -> execute_query(S, "DESCRIBE " \o table_name \o ";", env)
           [] S.db_type = PostgreSQL -> execute_query(S, "\\d " \o table_name \o ";", env)
           [] OTHER -> S

\* handle_connect_command; env.connect is what the driver's connect() does
handle_connect_command(S, params, env) ==
    LET parts == split(params)
        type == lower(parts[1])
    IN  IF Len(parts) = 0 THEN S
        ELSE IF type = "sqlite" /\ Len(parts) >= 2
        THEN connect_sqlite(S, parts[2], env.connect)
        ELSE IF type = "mysql" /\ Len(parts) >= 5
        THEN connect_mysql(S, parts[2], parts[3], parts[4], parts[5], 3306, env.connect)
        ELSE IF type = "postgresql" /\ Len(parts) >= 5
        THEN connect_postgresql(S, parts[2], parts[3], parts[4], parts[5], 5432, env.connect)
        ELSE S

\* The commit and rollback commands: the call on the connection, whose
\* exception is printed and swallowed.
commit_command_prints_only(S, env) == S

commit_command(S, env) ==
    IF ~is_connected(S) THEN S
    ELSE IF env.drv.raises = "commit" THEN [Drv(S, "commit") EXCEPT !.call.raised = "commit"]
    ELSE Committed(S)

rollback_command(S, env) ==
    IF ~is_connected(S) THEN S
    ELSE IF env.drv.raises = "rollback"
    THEN [Drv(S, "rollback") EXCEPT !.call.raised = "rollback"]
    ELSE RolledBack(S)

\* The changepassword command: env.entries is what getpass gives, env.save what
\* save_config does; the value change_password returns is dropped.
changepassword_command(S, env) ==
    LET r == change_password(S, env.entries, env.save)
    IN  [r.S EXCEPT !.call.exc = r.exc]

\* the autocommit commands flipping the flag instead of setting it
autocommit_command_flips(S, value) == [S EXCEPT !.auto_commit = ~S.auto_commit]

\* The autocommit on and autocommit off commands: self.db_manager.auto_commit = value
autocommit_command(S, value) == [S EXCEPT !.auto_commit = value]

\* handle_special_commands: the state after it and whether it returned True.
\* help, clear and export touch only the terminal and the export file: none of
\* them is part of the state above.
handle_special_commands(S, input, env) ==
    LET command == lower(strip(input))
        Handled(T) == [handled |-> TRUE, S |-> T]
    IN  CASE command = "help" -> Handled(S)
          [] command = "exit" -> Handled([S EXCEPT !.running = FALSE])
          [] command = "changepassword" -> Handled(changepassword_command(S, env))
          [] command = "history" -> Handled(show_history(S))
          [] command = "clear" -> Handled(S)
          [] OTHER ->
             IF startswith(command, "\\dt") THEN Handled(show_tables(S, env))
             ELSE IF startswith(command, "\\d ")
             THEN Handled(describe_table(S, strip(StrFrom(command, 3)), env))
             ELSE IF startswith(command, "connect ")
             THEN Handled(handle_connect_command(S, StrFrom(command, 8), env))
             ELSE IF startswith(command, "export ") THEN Handled(S)
             ELSE IF command = "autocommit on" THEN Handled(autocommit_command(S, TRUE))
             ELSE IF command = "autocommit off" THEN Handled(autocommit_command(S, FALSE))
             ELSE IF command = "commit" THEN Handled(commit_command(S, env))
             ELSE IF command = "rollback" THEN Handled(rollback_command(S, env))
             ELSE [handled |-> FALSE, S |-> S]

-----------------------------------------------------------------------------
(* SQLExecutor.run                                                         *)

\* the continuation loop testing the line as typed, not trimmed
RECURSIVE read_continuation_untrimmed(_, _)
read_continuation_untrimmed(query_lines, lines) ==
    IF Len(lines) = 0
    THEN [exc |-> EOFError, query_lines |-> query_lines, read |-> <<>>]
    ELSE IF lines[1] = EOFError
    THEN [exc |-> EOFError, query_lines |-> query_lines, read |-> <<EOFError>>]
    ELSE IF lines[1] = KeyboardInterrupt
    THEN [exc |-> NoneStr, query_lines |-> query_lines, read |-> <<KeyboardInterrupt>>]
    ELSE IF endswith(lines[1], ";")
    THEN [exc |-> NoneStr, query_lines |-> Append(query_lines, lines[1]), read |-> <<lines[1]>>]
    ELSE LET r == read_continuation_untrimmed(Append(query_lines, lines[1]), Tail(lines))
         IN  [r EXCEPT !.read = <<lines[1]>> \o r.read]

\* The continuation loop: `lines` is what input("...> ") gives, call after call.
\* The result is query_lines, the exception that left the loop, if any, and
\* what was read at the continuation prompt.
RECURSIVE read_continuation(_, _)
read_continuation(query_lines, lines) ==
    IF Len(lines) = 0
    THEN [exc |-> EOFError, query_lines |-> query_lines, read |-> <<>>]
    ELSE IF lines[1] = EOFError
    THEN [exc |-> EOFError, query_lines |-> query_lines, read |-> <<EOFError>>]
    ELSE IF lines[1] = KeyboardInterrupt
    THEN [exc |-> NoneStr, query_lines |-> query_lines, read |-> <<KeyboardInterrupt>>]
    ELSE IF endswith(strip(lines[1]), ";")
    THEN [exc |-> NoneStr, query_lines |-> Append(query_lines, lines[1]), read |-> <<lines[1]>>]
    ELSE LET r == read_continuation(Append(query_lines, lines[1]), Tail(lines))
         IN  [r EXCEPT !.read = <<lines[1]>> \o r.read]

\* the end of one pass that goes on after the end of input
LoopTest_running_only(S) ==
    IF ~S.running THEN [S EXCEPT !.pc = "done"] ELSE S

\* the end of one pass of `while self.running`: the test, or the break on EOFError
LoopTest(S) ==
    IF S.call.exc = EOFError \/ ~S.running THEN [S EXCEPT !.pc = "done"] ELSE S

\* the part of the loop body that executes whatever was typed
run_sql_no_semicolon_test(S, user_input, lines, env) ==
    LET r == read_continuation(<<user_input>>, lines)
        single == endswith(strip(user_input), ";")
        query == IF single THEN user_input ELSE join(r.query_lines)
        S0 == IF single THEN S ELSE [S EXCEPT !.call.lines = r.read]
    IN  IF ~single /\ r.exc # NoneStr THEN [S0 EXCEPT !.call.exc = r.exc]
        ELSE execute_query(S0, query, env)

\* the loop body taking the first continuation line for a command when it is one
run_sql_commands_in_continuation(S, user_input, lines, env) ==
    LET r == read_continuation(<<user_input>>, lines)
        single == endswith(strip(user_input), ";")
        query == IF single THEN user_input ELSE join(r.query_lines)
        first == IF ~single /\ r.read # <<>> /\ r.read[1] \notin {EOFError, KeyboardInterrupt}
                 THEN handle_special_commands(S, r.read[1], env).S ELSE S
        S0 == IF single THEN S ELSE [first EXCEPT !.call.lines = r.read]
    IN  IF ~single /\ r.exc # NoneStr THEN [S0 EXCEPT !.call.exc = r.exc]
        ELSE IF endswith(strip(query), ";") THEN execute_query(S0, query, env)
        ELSE S0

\* the part of the loop body that handles a SQL statement
run_sql(S, user_input, lines, env) ==
    LET r == read_continuation(<<user_input>>, lines)
        single == endswith(strip(user_input), ";")
        query == IF single THEN user_input ELSE join(r.query_lines)
        S0 == IF single THEN S ELSE [S EXCEPT !.call.lines = r.read]
    IN  IF ~single /\ r.exc # NoneStr THEN [S0 EXCEPT !.call.exc = r.exc]
        ELSE IF endswith(strip(query), ";") THEN execute_query(S0, query, env)
        ELSE S0

\* One pass of the loop body: user_input is what input(prompt) gives.
run_body(S, user_input, lines, env) ==
    LET h == handle_special_commands(S, user_input, env)
    IN  IF user_input = EOFError THEN [S EXCEPT !.call.exc = EOFError]
        ELSE IF user_input = KeyboardInterrupt THEN S
        ELSE IF strip(user_input) = "" THEN S
        ELSE IF h.handled THEN h.S
        ELSE run_sql(S, user_input, lines, env)

run_pass(S, user_input, lines, env) ==
    LoopTest(run_body([S EXCEPT !.call = NewCall("run", user_input), !.reads = S.reads + 1],
                      user_input, lines, env))

\* The start of run: authenticate, and return when it fails; an exception of
\* getpass leaves run.
run_start(S, entries, save) ==
    LET r == authenticate([S EXCEPT !.call = NewCall("authenticate", "")], entries, save)
    IN  [r.S EXCEPT !.call.exc = r.exc,
                    !.call.returned = r.exc = NoneStr,
                    !.call.success = r.value,
                    !.pc = IF r.exc = NoneStr /\ r.value THEN "loop" ELSE "done"]

-----------------------------------------------------------------------------
(* The environment's choices                                               *)

\* A history file written by an earlier session: n entries, oldest first.
Loaded(n) ==
    [i \in 1..n |-> [timestamp |-> i - n - 1, query |-> "SELECT 1;",
                     execution_time |-> 0, rows_affected |-> 1, error |-> NoneStr]]

RowsOne == << <<"1">> >>

DrvNoRows == [raises |-> "none", error |-> "", rows |-> <<>>,
              description |-> <<"id">>, rowcount |-> 0, changes |-> FALSE]
DrvOneRow == [raises |-> "none", error |-> "", rows |-> RowsOne,
              description |-> <<"id">>, rowcount |-> 1, changes |-> TRUE]
DrvRaises(what, changes) ==
    [raises |-> what, error |-> "database is locked", rows |-> <<>>,
     description |-> <<>>, rowcount |-> -1, changes |-> changes]

DriverOutcomes == {DrvNoRows, DrvOneRow, DrvRaises("execute", FALSE), DrvRaises("commit", TRUE)}

TxnOutcomes == {DrvNoRows, DrvRaises("commit", FALSE), DrvRaises("rollback", FALSE)}

ConnectOutcomes == {"ok", "error", "import_error"}

NoAnswers == <<"", "">>

Env(answers, drv, write, connect) ==
    [answers |-> answers, drv |-> drv, write |-> write, duration |-> 1, connect |-> connect,
     entries |-> <<>>, save |-> "ok"]

\* The environment in which every answer is yes and nothing fails: the
\* operation then asks of it all it can ask.
EnvAllOk == Env(<<"y", "y">>, DrvOneRow, "ok", "ok")

\* What the operation that took S to T asked of the environment.
Asked(S, T) ==
    [prompts |-> Len(T.call.prompts),
     driver |-> \E i \in 1..Len(T.call.driver) : T.call.driver[i] # "connect",
     write |-> T.history # S.history,
     connect |-> \E i \in 1..Len(T.call.driver) : T.call.driver[i] = "connect"]

\* The environments that differ in what is asked of them.
Envs(asked, answers, drvs, writes, connects) ==
    {Env(a, drv, write, connect) :
        a \in {s \in (answers \cup {""}) \X (answers \cup {""}) :
                    \A i \in 1..2 : IF i > asked.prompts THEN s[i] = "" ELSE s[i] \in answers},
        drv \in (IF asked.driver THEN drvs ELSE {DrvNoRows}),
        write \in (IF asked.write THEN writes ELSE {"ok"}),
        connect \in (IF asked.connect THEN connects ELSE {"ok"})}

\* The state becomes T.
Becomes(T) ==
    /\ connection' = T.connection
    /\ db_type' = T.db_type
    /\ connection_params' = T.connection_params
    /\ auto_commit' = T.auto_commit
    /\ running' = T.running
    /\ history' = T.history
    /\ persisted' = T.persisted
    /\ live' = T.live
    /\ db_working' = T.db_working
    /\ db_committed' = T.db_committed
    /\ opened' = T.opened
    /\ now' = T.now
    /\ pc' = T.pc
    /\ call' = T.call
    /\ config' = T.config
    /\ reads' = T.reads

\* SQLExecutor() and its DatabaseManager() and QueryHistory(), the latter
\* loading the history file `file`.
ConstructedWith(file, config_file) ==
    /\ connection = NoneHandle
    /\ db_type = NoneStr
    /\ connection_params = <<>>
    /\ auto_commit = TRUE
    /\ running = TRUE
    /\ persisted = file
    /\ history = load_history(file)
    /\ live = {}
    /\ db_working = 0
    /\ db_committed = 0
    /\ opened = 0
    /\ now = 0
    /\ pc = "auth"
    /\ config = load_config(config_file)
    /\ reads = 0

\* the same, no configuration file being there
ConstructedState(file) == ConstructedWith(file, NoConfig)

Constructed(file) == ConstructedState(file) /\ call = NewCall("init", "")

InBounds(T) == T.now <= MaxStatements /\ T.opened <= MaxConnects

-----------------------------------------------------------------------------
(* SpecExec: the methods of SQLExecutor called one after the other         *)

\* handle_connect_command(params), the driver connecting
CallConnect(connects) ==
    /\ opened < MaxConnects
    /\ \E params \in connects :
        LET S == [State EXCEPT !.call = NewCall("handle_connect_command", params)]
        IN  Becomes(handle_connect_command(S, params, EnvAllOk))

\* handle_special_commands("autocommit on" / "autocommit off")
CallAutoCommit ==
    \E command \in {"autocommit on", "autocommit off"} :
        LET S == [State EXCEPT !.call = NewCall("handle_special_commands", command)]
        IN  Becomes(handle_special_commands(S, command, EnvAllOk).S)

\* execute_query(query)
CallExecuteQuery(queries, answers, drvs) ==
    /\ now < MaxStatements
    /\ \E query \in queries :
        LET S == [State EXCEPT !.call = NewCall("execute_query", query)]
        IN  \E env \in Envs(Asked(S, execute_query(S, query, EnvAllOk)),
                            answers, drvs, {"ok"}, {"ok"}) :
                Becomes(execute_query(S, query, env))

ExecConnects == {"sqlite app.db", "mysql db1 root pw shop", "postgresql db1 root pw shop"}

ExecQueries ==
    {"SELECT * FROM t;", "  show tables", "INSERT INTO t VALUES (1);",
     "DELETE FROM t;", "delete from t where id = 1;", "Drop Table t;",
     "Explain delete from t; drop table t"}

ExecAnswers == {" YES", "", KeyboardInterrupt}

InitExec == Constructed(NoFile)

ExecConnect == CallConnect(ExecConnects)

ExecAutoCommit == CallAutoCommit

ExecQuery == CallExecuteQuery(ExecQueries, ExecAnswers, DriverOutcomes)

NextExec == ExecConnect \/ ExecAutoCommit \/ ExecQuery

SpecExec == InitExec /\ [][NextExec]_vars

-----------------------------------------------------------------------------
(* SpecConfirm: destructive statements and what the operator answers       *)

ConfirmQueries ==
    {"DELETE FROM t;", "drop table t;", "delete from t; drop table t;", "select 1;"}

ConfirmAnswers ==
    {"y", "Y", "yes", " Yes ", "", "n", "no", "yeah", "y!", KeyboardInterrupt}

InitConfirm == Constructed(NoFile)

ConfirmConnect == CallConnect({"sqlite app.db"})

ConfirmQuery == CallExecuteQuery(ConfirmQueries, ConfirmAnswers, {DrvOneRow})

ConfirmAutoCommit == CallAutoCommit

NextConfirm == ConfirmConnect \/ ConfirmAutoCommit \/ ConfirmQuery

SpecConfirm == InitConfirm /\ [][NextConfirm]_vars

-----------------------------------------------------------------------------
(* SpecGate: validate_sql_safety on texts put together from fragments      *)

MaxFragments == 2       \* fragments in one text

Fragments == {"delete ", "DELETE", "Where", " drop", " table", "Drop Table ", "x;"}

RECURSIVE Texts(_)
Texts(n) ==
    IF n = 0 THEN {""} ELSE Texts(n - 1) \cup {t \o f : t \in Texts(n - 1), f \in Fragments}

GateAnswers == {"y", " Yes ", "", "n", "yeah", KeyboardInterrupt, EOFError}

InitGate ==
    /\ ConstructedState(NoFile)
    /\ \E query \in Texts(MaxFragments), a \in GateAnswers, b \in GateAnswers :
          call = [NewCall("input", query) EXCEPT !.answers = <<a, b>>]

\* validate_sql_safety(query), the operator answering call.answers
GateValidate ==
    /\ call.op = "input"
    /\ LET v == validate_sql_safety(call.input, call.answers)
       IN  call' = [NewCall("validate_sql_safety", call.input) EXCEPT
                        !.gate = 1, !.prompts = v.prompts,
                        !.answers = SubSeq(call.answers, 1, Len(v.prompts)),
                        !.exc = v.exc, !.returned = v.exc = NoneStr,
                        !.success = v.is_safe, !.message = v.message]
    /\ UNCHANGED <<connection, db_type, connection_params, auto_commit, running,
                   history, persisted, live, db_working, db_committed, opened, now, pc,
                   config, reads>>

NextGate == GateValidate

SpecGate == InitGate /\ [][NextGate]_vars

-----------------------------------------------------------------------------
(* SpecHistory: the methods of QueryHistory called one after the other     *)

\* lengths of the history file the session starts from
HistLoads == {0, 1, HistoryKeep - 1, HistoryKeep}

\* the limits get_history is called with
HistLimits == ((0 - MaxLimit)..MaxLimit) \cup {HistoryShown, HistoryKeep, HistoryKeep + MaxAdds + 1}

InitHistory ==
    \E file \in {NoFile} \cup {JsonFile(Loaded(n)) : n \in HistLoads} : Constructed(file)

\* add_query(query, execution_time, rows_affected, error), a tick of the clock
\* after the last call
HistAdd ==
    /\ now < MaxAdds
    /\ \E r \in {<<1, NoneStr>>, <<0, "SQL Error: database is locked">>}, write \in WriteOutcomes :
        LET S == [State EXCEPT !.call = [NewCall("add_query", " SELECT 1; ") EXCEPT !.kind = write],
                               !.now = now + 1]
        IN  Becomes(add_query(S, " SELECT 1; ", 1, r[1], r[2], write))

\* get_history(limit)
HistGet ==
    \E limit \in HistLimits :
        Becomes([State EXCEPT !.call = [NewCall("get_history", "") EXCEPT
                                           !.count = limit,
                                           !.listing = get_history(State, limit)]])

\* clear_history()
HistClear ==
    \E write \in WriteOutcomes :
        Becomes(clear_history([State EXCEPT !.call = [NewCall("clear_history", "") EXCEPT
                                                          !.kind = write]], write))

NextHistory == HistAdd \/ HistGet \/ HistClear

SpecHistory == InitHistory /\ [][NextHistory]_vars

-----------------------------------------------------------------------------
(* SQLExecutor.run, step by step: authenticate, then one pass of the loop  *)
(* after the other                                                         *)

\* a configuration file written by an earlier setup_password
Configured(password) ==
    ConfigFile([password_hash |-> hash_password(password), setup_complete |-> TRUE])

\* main(): SQLExecutor() is constructed and run() is about to be called
Started(config_files) ==
    \E config_file \in config_files :
        ConstructedWith(NoFile, config_file) /\ call = NewCall("init", "")

\* run() up to the loop: `entries` is what the operator types at getpass
RunStart(entry_seqs, saves) ==
    /\ pc = "auth"
    /\ \E entries \in entry_seqs, save \in saves :
        Becomes(run_start(State, entries, save))

\* the input at the main prompt starts a statement that goes on at "...> "
Continues(S, user_input) ==
    /\ user_input \notin {EOFError, KeyboardInterrupt}
    /\ strip(user_input) # ""
    /\ ~handle_special_commands(S, user_input, EnvAllOk).handled
    /\ ~endswith(strip(user_input), ";")

\* the input at the main prompt is the changepassword command
AsksPassword(user_input) ==
    /\ user_input \notin {EOFError, KeyboardInterrupt}
    /\ lower(strip(user_input)) = "changepassword"

\* One pass of the loop of run(): the operator types user_input at the main
\* prompt, `lines` at the continuation prompt, and the environment does `env`.
RunPass(max_reads, inputs, conts, answers, drvs, connects, entry_seqs) ==
    /\ pc = "loop"
    /\ reads < max_reads
    /\ \E user_input \in inputs :
        \E lines \in (IF Continues(State, user_input) THEN conts ELSE {<<>>}) :
            \E env \in Envs(Asked(State, run_pass(State, user_input, lines, EnvAllOk)),
                            answers, drvs, {"ok"}, connects),
               entries \in (IF AsksPassword(user_input) THEN entry_seqs ELSE {<<>>}) :
                Becomes(run_pass(State, user_input, lines, [env EXCEPT !.entries = entries]))

\* The interpreter finalizes a native handle the program holds no reference
\* to any more: one that self.connection was rebound from, or the last one once
\* run() has returned.  The program itself never calls close(), and nothing
\* says when, or whether, the interpreter does.
Collect ==
    /\ \E h \in live :
        /\ h # connection \/ pc = "done"
        /\ live' = live \ {h}
    /\ UNCHANGED <<connection, db_type, connection_params, auto_commit, running, history,
                   persisted, db_working, db_committed, opened, now, pc, call, config, reads>>

-----------------------------------------------------------------------------
(* SpecSession: sessions that fail, are cancelled and end                  *)

MaxReads == 3           \* lines read at the main prompt in one session

SessionPasswords == {"secret1", "guess12", KeyboardInterrupt, EOFError}

\* what the operator has ready to type at getpass: authenticate reads at most
\* max_attempts + 1 of them
SessionEntries == [1..(max_attempts + 1) -> {"secret1", "guess12"}]
                      \cup {<<e>> : e \in SessionPasswords}
                      \cup {<<"guess12", "guess12", e>> : e \in SessionPasswords}

SessionInputs == {"exit", " EXIT ", EOFError, KeyboardInterrupt, "  ",
                  "connect sqlite app.db", "INSERT INTO t VALUES (1);",
                  "select *", "DELETE FROM t;"}

SessionConts == {<<KeyboardInterrupt>>, <<"from t", KeyboardInterrupt>>, <<" ", KeyboardInterrupt>>,
                 <<"from t;", KeyboardInterrupt>>, <<" ", "from t", " ;  ">>, <<"from t", EOFError>>}

SessionAnswers == {"y", "n", EOFError}

SessionDrvs == {DrvOneRow, DrvRaises("execute", FALSE), DrvRaises("commit", TRUE)}

InitSession == Started({NoConfig, Configured("secret1")})

SessionStart == RunStart(SessionEntries, {"ok", "fails"})

SessionPass ==
    RunPass(MaxReads, SessionInputs, SessionConts, SessionAnswers, SessionDrvs, {"ok", "error"},
            {<<>>})

NextSession == SessionStart \/ SessionPass \/ Collect

SpecSession == InitSession /\ [][NextSession]_vars

-----------------------------------------------------------------------------
(* SpecMeta: the commands of handle_special_commands, on each dialect      *)

MetaConnects == {"connect sqlite App.db", "CONNECT MySQL db1 Root Pw shop",
                 "connect postgresql db1 root pw shop", "connect sqlite"}

MetaCommands == {"help", "history", "clear", "\\dt", "\\d users", "\\d Deleted_Items",
                 "export csv out.csv", "autocommit off", "autocommit on", "commit",
                 "rollback", "changepassword", " Exit"}

MetaEntries == {<<"secret1", "newpass1", "newpass1">>, <<"guess12">>}

InitMeta == Started({Configured("secret1")})

MetaStart == RunStart({<<"secret1">>}, {"ok"})

MetaPass ==
    RunPass(MaxReads, MetaConnects \cup MetaCommands, {<<>>}, {"y", "n"},
            {DrvOneRow, DrvRaises("execute", FALSE)}, ConnectOutcomes, MetaEntries)

NextMeta == MetaStart \/ MetaPass \/ Collect

SpecMeta == InitMeta /\ [][NextMeta]_vars

-----------------------------------------------------------------------------
(* SpecTxn: statements and the transaction commands with auto_commit off   *)

MaxTxnReads == 4        \* lines read at the main prompt in one session

TxnInputs == {"connect sqlite app.db", "autocommit off", "autocommit on",
              "INSERT INTO t VALUES (2);", "commit", "rollback"}

InitTxn == Started({Configured("secret1")})

TxnStart == RunStart({<<"secret1">>}, {"ok"})

TxnPass ==
    RunPass(MaxTxnReads, TxnInputs, {<<>>}, {"y"},
            {DrvOneRow, DrvRaises("execute", FALSE), DrvRaises("commit", TRUE)}, {"ok"}, {<<>>})

NextTxn == TxnStart \/ TxnPass

SpecTxn == InitTxn /\ [][NextTxn]_vars

-----------------------------------------------------------------------------
(* SpecMulti: statements typed over several lines                          *)

MultiInputs == {"connect sqlite app.db", "autocommit off", "select *", " INSERT INTO t",
                "commit it"}

MultiConts == {<<"from t;">>, <<"from t; ", "x;">>, <<"", " ;  ">>, <<"a; b", "c ;">>,
               <<"exit", ";">>, <<"commit", KeyboardInterrupt>>,
               <<"autocommit off", "connect sqlite other.db", "Exit ;">>,
               <<" EXIT ", EOFError>>}

InitMulti == Started({Configured("secret1")})

MultiStart == RunStart({<<"secret1">>}, {"ok"})

MultiPass ==
    RunPass(MaxReads, MultiInputs, MultiConts, {"y"},
            {DrvOneRow, DrvRaises("execute", FALSE)}, {"ok"}, {<<>>})

NextMulti == MultiStart \/ MultiPass

SpecMulti == InitMulti /\ [][NextMulti]_vars

-----------------------------------------------------------------------------
(* SpecFormat: format_tabular_output on small results                      *)

MaxRows == 2            \* rows of a result
MaxCols == 2            \* columns of a result

FormatCells == {StrCell("a"), IntCell(0 - 12)}

FormatNames == {"X", "name"}

\* results whose rows have the same number of cells
RectangularData ==
    UNION {[1..n -> [1..c -> FormatCells]] : n \in 0..MaxRows, c \in 1..MaxCols}

\* results with other values, and results whose rows differ in length or have
\* no cell at all
OtherData ==
    {<< <<NoneCell>> >>, << <<IntCell(7)>>, <<StrCell("")>> >>,
     << <<NoneCell, StrCell("a b")>>, <<IntCell(100), NoneCell>> >>,
     << <<>> >>, << <<StrCell("a")>>, <<>> >>,
     << <<StrCell("a")>>, <<IntCell(100), StrCell("")>> >>,
     << <<NoneCell, StrCell("a b")>>, <<IntCell(7)>> >>}

FormatHeaders == {<<>>} \cup UNION {[1..c -> FormatNames] : c \in 1..MaxCols}

InitFormat ==
    /\ ConstructedState(NoFile)
    /\ \E data \in RectangularData \cup OtherData, headers \in FormatHeaders :
          call = [NewCall("input", "") EXCEPT !.rows = data, !.headers = headers]

\* format_tabular_output(data, headers)
FormatRender ==
    /\ call.op = "input"
    /\ LET r == format_tabular_output(call.rows, call.headers)
       IN  call' = [NewCall("format_tabular_output", "") EXCEPT
                        !.rows = call.rows, !.headers = call.headers,
                        !.exc = r.exc, !.returned = r.exc = NoneStr,
                        !.message = r.text, !.listing = r.lines]
    /\ UNCHANGED <<connection, db_type, connection_params, auto_commit, running,
                   history, persisted, live, db_working, db_committed, opened, now, pc,
                   config, reads>>

NextFormat == FormatRender

SpecFormat == InitFormat /\ [][NextFormat]_vars

-----------------------------------------------------------------------------
(* Properties of execute_query and the safety gate                         *)

\* The answers of the sets above that are y or yes once trimmed and lower-cased.
AcceptingAnswers == {"y", "Y", "yes", " Yes ", " YES"}

IsAccept(answer) == answer \in AcceptingAnswers

\* Any other line, and an interrupt, is a decline; the end of input is neither.
IsDecline(answer) == answer # EOFError /\ ~IsAccept(answer)

DeclinedIn(c) == \E i \in 1..Len(c.answers) : IsDecline(c.answers[i])

InLog(c, name) == \E i \in 1..Len(c.driver) : c.driver[i] = name

VetoReasons == {"DELETE operation cancelled by user", "DROP TABLE operation cancelled by user"}

\* the text starts, trimmed and whatever its case, with one of the four keywords
IsDataText(query) ==
    \E k \in {"SELECT", "SHOW", "DESCRIBE", "EXPLAIN"} : startswith(upper(strip(query)), k)

\* the two destructive patterns on the upper-cased text
DeleteAll(query) == Contains(upper(query), "DELETE") /\ ~Contains(upper(query), "WHERE")
DropsTable(query) == Contains(upper(query), "DROP TABLE")

\* C1: execute_query without a connection returns the not-connected failure,
\* shows no prompt, calls no driver and leaves the history and its file alone,
\* whatever the query text.
C1_NotConnected ==
    [][(call'.op = "execute_query" /\ connection = NoneHandle) =>
          /\ call'.returned /\ ~call'.success /\ call'.kind = "Failure"
          /\ call'.message = "No database connection"
          /\ call'.prompts = <<>>
          /\ call'.driver = <<>>
          /\ history' = history
          /\ persisted' = persisted]_vars

C1_Witness ==
    /\ call.op = "execute_query"
    /\ connection = NoneHandle
    /\ call.input = "DELETE FROM t;"
    /\ call.message = "No database connection"

\* C2: when the operator declines a confirmation, execute_query returns the
\* failure with the veto reason, calls no driver, appends nothing to the
\* history and leaves the database contents as they were.
C2_VetoLeavesNoTrace ==
    [][(call'.op = "execute_query" /\ connection # NoneHandle /\ DeclinedIn(call')) =>
          /\ call'.returned /\ ~call'.success /\ call'.kind = "Failure"
          /\ call'.message \in VetoReasons
          /\ call'.driver = <<>>
          /\ history' = history
          /\ persisted' = persisted
          /\ db_working' = db_working
          /\ db_committed' = db_committed]_vars

C2_Witness ==
    /\ call.op = "execute_query"
    /\ connection # NoneHandle
    /\ call.answers = <<" YES", "">>
    /\ call.message = "DROP TABLE operation cancelled by user"
    /\ call.driver = <<>>

\* C3: validate_sql_safety vetoes exactly when the upper-cased text contains
\* DELETE without WHERE, or DROP TABLE, and the operator declines a
\* confirmation; a text with neither pattern is allowed and nothing is asked.
C3_VetoIff ==
    call.op = "validate_sql_safety" =>
        LET destructive == DeleteAll(call.input) \/ DropsTable(call.input)
            vetoed == call.returned /\ ~call.success
        IN  /\ ~destructive => (call.returned /\ call.success /\ call.prompts = <<>>)
            /\ destructive => (call.prompts # <<>> /\ (vetoed <=> DeclinedIn(call)))
            /\ vetoed => call.message \in VetoReasons

C3_Witness ==
    /\ call.op = "validate_sql_safety"
    /\ call.input = "delete Drop Table "
    /\ call.answers = <<" Yes ", KeyboardInterrupt>>
    /\ call.returned /\ ~call.success

\* C4 as stated: a text with both patterns is always asked both
\* confirmations, the delete one and then the drop one.
C4_BothPromptsAlways ==
    (call.op = "validate_sql_safety" /\ DeleteAll(call.input) /\ DropsTable(call.input)) =>
        call.prompts = <<DeletePrompt, DropPrompt>>

\* C4: for a text with both patterns the delete confirmation is asked first and
\* the drop confirmation next, exactly when the first was accepted; the text is
\* vetoed exactly when one of the confirmations asked is declined.
C4_PromptsInSequence ==
    (call.op = "validate_sql_safety" /\ DeleteAll(call.input) /\ DropsTable(call.input)) =>
        /\ Len(call.prompts) >= 1
        /\ call.prompts[1] = DeletePrompt
        /\ (Len(call.prompts) = 2) <=> IsAccept(call.answers[1])
        /\ Len(call.prompts) = 2 => call.prompts[2] = DropPrompt
        /\ (call.returned /\ ~call.success) <=> DeclinedIn(call)
        /\ (call.returned /\ ~call.success) =>
              call.message = IF Len(call.prompts) = 1
                             THEN "DELETE operation cancelled by user"
                             ELSE "DROP TABLE operation cancelled by user"

C4_Witness ==
    /\ call.op = "validate_sql_safety"
    /\ DeleteAll(call.input) /\ DropsTable(call.input)
    /\ call.prompts = <<DeletePrompt, DropPrompt>>
    /\ call.answers = <<"y", "n">>
    /\ call.message = "DROP TABLE operation cancelled by user"

\* C5: a confirmation is accepted only on y or yes, trimmed and in any case;
\* every other answer and an interrupt decline it, and a statement whose
\* confirmation was declined never reaches the driver.
C5_OnlyYesAccepts ==
    (call.op = "execute_query" /\ connection # NoneHandle /\ call.prompts # <<>>) =>
        LET k == Len(call.answers)
        IN  /\ k = Len(call.prompts)
            /\ \A i \in 1..(k - 1) : IsAccept(call.answers[i])
            /\ IsAccept(call.answers[k]) => InLog(call, "execute")
            /\ IsDecline(call.answers[k]) =>
                  (call.driver = <<>> /\ call.returned /\ ~call.success)

C5_Witness ==
    /\ call.op = "execute_query"
    /\ call.answers = <<" Yes ", "yeah">>
    /\ call.driver = <<>>
    /\ call.returned /\ ~call.success

\* C6: a query whose trimmed text starts with SELECT, SHOW, DESCRIBE or EXPLAIN
\* in any case never has commit called on the connection, with auto_commit on
\* or off, and when execute_query succeeds it returns the rows.
C6_DataNeverCommits ==
    (call.op = "execute_query" /\ IsDataText(call.input)) =>
        /\ ~InLog(call, "commit")
        /\ (call.returned /\ call.success) => call.kind = "RowSet"

C6_Witness ==
    /\ call.op = "execute_query"
    /\ call.input = "  show tables"
    /\ auto_commit
    /\ call.success /\ call.kind = "RowSet" /\ call.rows = RowsOne

\* C7 as stated: every other statement that reaches the driver returns a row
\* count and is committed exactly when auto_commit is set.
C7_AffectedAlways ==
    (call.op = "execute_query" /\ call.driver # <<>> /\ ~IsDataText(call.input)) =>
        /\ call.kind = "Affected"
        /\ InLog(call, "commit") <=> auto_commit

\* C7: every other statement that reaches the driver, no driver call raising,
\* returns the driver's row count, and commit is called exactly when
\* auto_commit is set.
C7_AffectedUnlessRaised ==
    (call.op = "execute_query" /\ call.driver # <<>> /\ ~IsDataText(call.input)
        /\ call.raised = "none") =>
        /\ call.returned /\ call.success /\ call.kind = "Affected"
        /\ InLog(call, "commit") <=> auto_commit

C7_Witness ==
    /\ call.op = "execute_query"
    /\ call.input = "INSERT INTO t VALUES (1);"
    /\ ~auto_commit
    /\ call.kind = "Affected" /\ call.count = 1
    /\ ~InLog(call, "commit")

\* C8: an execute_query call that reaches the driver appends exactly one entry
\* to the history, for the trimmed text; when a driver call raised, the entry
\* has rows_affected = 0 and the error message, which the call returns as its
\* failure.
C8_OneEntryPerExecution ==
    [][(call'.op = "execute_query" /\ call'.driver # <<>>) =>
          /\ Len(history') = Len(history) + 1
          /\ SubSeq(history', 1, Len(history)) = history
          /\ LET entry == history'[Len(history')]
             IN  /\ entry.query = strip(call'.input)
                 /\ call'.returned
                 /\ call'.raised = "none" => (call'.success /\ entry.error = NoneStr)
                 /\ call'.raised # "none" =>
                       /\ ~call'.success /\ call'.kind = "Failure"
                       /\ entry.rows_affected = 0
                       /\ entry.error # NoneStr
                       /\ entry.error = call'.message]_vars

C8_Witness ==
    /\ call.op = "execute_query"
    /\ call.raised = "commit"
    /\ Len(history) = 1
    /\ history[1].rows_affected = 0
    /\ history[1].error = "SQL Error: database is locked"
    /\ call.message = "SQL Error: database is locked"

-----------------------------------------------------------------------------
(* Properties of QueryHistory                                              *)

\* the last m entries of h, oldest first
LastEntries(h, m) == [i \in 1..m |-> h[Len(h) - m + i]]

\* C9 as stated: the history never holds more than 100 entries.
C9_HistoryAtMostKeep == Len(history) <= HistoryKeep

\* C9: the history file never holds more than 100 entries; after an add_query
\* whose write succeeded it holds the most recent min(100, n) entries of the n
\* in memory, oldest first, and the entries in memory are in the order of their
\* timestamps.
C9_FileKeepsMostRecent ==
    /\ Len(persisted.entries) <= HistoryKeep
    /\ \A i \in 1..(Len(history) - 1) : history[i].timestamp <= history[i + 1].timestamp
    /\ (call.op = "add_query" /\ call.kind = "ok") =>
          /\ persisted.status = "json"
          /\ persisted.entries = LastEntries(history, Min(Len(history), HistoryKeep))

C9_Witness ==
    /\ call.op = "add_query" /\ call.kind = "ok"
    /\ Len(history) = HistoryKeep + 2
    /\ Len(persisted.entries) = HistoryKeep
    /\ persisted.entries[1] = history[3]

\* C10: get_history(limit) returns the last `limit` entries, all of them when
\* limit exceeds their number and none when limit is 0.
C10_LastLimitEntries ==
    (call.op = "get_history" /\ call.count >= 0) =>
        call.listing = LastEntries(history, Min(call.count, Len(history)))

-----------------------------------------------------------------------------
(* Properties of the session: run, authenticate and the loop               *)

Last(s) == s[Len(s)]

\* the end of input was reached at the main prompt, at the continuation prompt
\* or at a confirmation prompt
EndOfInput(c) ==
    \/ c.input = EOFError
    \/ (c.lines # <<>> /\ Last(c.lines) = EOFError)
    \/ (c.answers # <<>> /\ Last(c.answers) = EOFError)

IsExit(c) == c.input \in {"exit", " EXIT "}

\* C13 as stated: when the session ends with an active connection, the
\* connection is closed.
C13_ClosedAtSessionEnd ==
    (pc = "done" /\ connection # NoneHandle) => connection \notin live

\* C14: a cancel at the continuation prompt discards what was buffered:
\* execute_query is not called, nothing is added to the history, no driver call
\* is made, and the loop goes on to the next prompt.
C14_CancelDiscards ==
    [][(call'.op = "run" /\ call'.lines # <<>> /\ Last(call'.lines) = KeyboardInterrupt) =>
          /\ call'.queries = <<>>
          /\ call'.gate = 0
          /\ call'.driver = <<>>
          /\ history' = history
          /\ persisted' = persisted
          /\ db_working' = db_working /\ db_committed' = db_committed
          /\ pc' = "loop" /\ running']_vars

C14_Witness ==
    /\ call.op = "run"
    /\ connection # NoneHandle
    /\ call.input = "select *"
    /\ call.lines = <<"from t", KeyboardInterrupt>>
    /\ pc = "loop"

\* C16: with a password configured, authenticate asks for it at most 3 times;
\* the loop is entered exactly when the last password typed is the configured
\* one, and otherwise run returns having read no command; nothing is read,
\* executed or connected outside the loop.
C16_AuthenticationGuardsLoop ==
    [][/\ (pc = "auth" /\ config.setup_complete) =>
            /\ call'.op = "authenticate"
            /\ Len(call'.answers) <= 3
            /\ (pc' = "loop") <=> (call'.answers # <<>> /\ Last(call'.answers) = "secret1")
            /\ pc' # "loop" => (pc' = "done" /\ reads' = 0)
            /\ (Len(call'.answers) = 3 /\ Last(call'.answers) # "secret1") => pc' = "done"
       /\ (reads' # reads \/ history' # history \/ connection' # connection
              \/ db_working' # db_working) => pc = "loop"]_vars

C16_Witness ==
    /\ call.op = "authenticate"
    /\ call.answers = <<"guess12", "guess12", "guess12">>
    /\ call.returned /\ ~call.success
    /\ pc = "done"
    /\ reads = 0

\* C17: when execute_query fails because a driver call raised, the session is
\* still running with the same connection and the same auto_commit flag, and
\* the loop goes on to the next prompt.
C17_FailureIsRecoverable ==
    [][(call'.op = "run" /\ call'.queries # <<>> /\ call'.raised # "none") =>
          /\ call'.returned /\ ~call'.success
          /\ running' /\ pc' = "loop"
          /\ connection' = connection /\ connection' \in live'
          /\ db_type' = db_type
          /\ auto_commit' = auto_commit]_vars

\* a statement that succeeds on the connection on which the one before failed
C17_Witness ==
    /\ call.op = "run"
    /\ call.raised = "none" /\ call.success
    /\ Len(history) = 2
    /\ history[1].error = "SQL Error: database is locked"
    /\ history[2].error = NoneStr

\* C18: exit in any letter case, and the end of input at the main, the
\* continuation or a confirmation prompt, stop the loop; after that nothing is
\* read and nothing is executed.
C18_ExitAndEndOfInputStop ==
    [][/\ (call'.op = "run" /\ (IsExit(call') \/ EndOfInput(call'))) => pc' = "done"
       /\ (call'.op = "run" /\ IsExit(call')) => (~running' /\ call'.queries = <<>>)
       /\ pc = "done" => (reads' = reads /\ history' = history /\ call' = call
                            /\ db_working' = db_working)]_vars

C18_Witness ==
    /\ call.op = "run"
    /\ call.input = "DELETE FROM t;"
    /\ call.answers = <<EOFError>>
    /\ pc = "done"
    /\ history = <<>>

-----------------------------------------------------------------------------
(* Properties of the session commands                                      *)

ConfirmationPrompts == {DeletePrompt, DropPrompt}

\* C11 as stated: handling a meta-command never calls validate_sql_safety and
\* never shows a confirmation prompt.
C11_MetaNeverGated ==
    (call.op = "run" /\ call.input \in MetaConnects \cup MetaCommands) =>
        /\ call.gate = 0
        /\ \A i \in 1..Len(call.prompts) : call.prompts[i] \notin ConfirmationPrompts

\* C12 as stated: at most one native handle is opened and not closed.
C12_AtMostOneAlive == Cardinality(live) <= 1

\* C15: with auto_commit off, a statement that succeeds changes what the
\* session sees and not what a fresh connection sees; the commit command, when
\* the driver's commit succeeds, makes a fresh connection see all of it; and a
\* fresh connection sees the committed contents only.
C15_VisibleAfterCommit ==
    [][/\ (call'.op = "run" /\ call'.input = "INSERT INTO t VALUES (2);"
              /\ ~auto_commit /\ call'.success) =>
            /\ call'.kind = "Affected"
            /\ db_working' = db_working + 1
            /\ db_committed' = db_committed
       /\ (call'.op = "run" /\ call'.input = "commit" /\ connection # NoneHandle
              /\ call'.raised = "none") =>
            /\ db_committed' = db_working
            /\ db_working' = db_working
       /\ (call'.op = "run" /\ opened' # opened) => db_working' = db_committed]_vars

C15_Witness ==
    /\ call.op = "run"
    /\ call.input = "commit"
    /\ ~auto_commit
    /\ Len(history) = 1 /\ history[1].rows_affected = 1
    /\ reads = 4
    /\ db_committed = 1 /\ db_working = 1

\* the commands that describe a table and list the tables
DescribeCommands == {"\\dt", "\\d users", "\\d Deleted_Items"}

\* C19 as stated: on a connection of any dialect, \d <table> and \dt issue a
\* statement that starts with SELECT, SHOW, DESCRIBE or EXPLAIN, and when it
\* succeeds the result is the rows and nothing is committed.
C19_DescribeReturnsRows ==
    (call.op = "run" /\ call.input \in DescribeCommands /\ call.queries # <<>>) =>
        /\ \A i \in 1..Len(call.queries) : IsDataText(call.queries[i])
        /\ call.success => call.kind = "RowSet"
        /\ ~InLog(call, "commit")

\* the words typed after the command word and the dialect
TypedParameters(user_input) == Tail(Tail(split(user_input)))

\* C20 as stated: the driver's connect() is given the parameters as typed,
\* character for character.
C20_ParametersAsTyped ==
    (call.op = "run" /\ call.input \in MetaConnects /\ call.args # <<>>) =>
        call.args = SubSeq(TypedParameters(call.input), 1, Len(call.args))

-----------------------------------------------------------------------------
(* Properties of statements typed over several lines                       *)

\* the trimmed line ends with the terminator
Terminated(line) ==
    /\ line \notin {EOFError, KeyboardInterrupt}
    /\ \E i \in 1..Len(line) :
          /\ Chr(line, i) = ";"
          /\ \A j \in (i + 1)..Len(line) : Chr(line, j) \in {" ", "\t"}

\* the lines put together, a newline between one and the next
RECURSIVE NewlineJoined(_)
NewlineJoined(ls) ==
    IF Len(ls) = 1 THEN ls[1] ELSE NewlineJoined(SubSeq(ls, 1, Len(ls) - 1)) \o "\n" \o ls[Len(ls)]

\* the words a command of the main prompt is made of
MetaTokens == {"exit", " EXIT ", "commit", "autocommit off", "connect sqlite other.db"}

\* C21: when the first line lacks the terminator, reading at the continuation
\* prompt stops at the first line whose trimmed text ends with `;`, and
\* execute_query is then called once, with the first line and the lines read,
\* in the order typed, a newline between them; it is not called when no line
\* read is terminated.
C21_AssembledOnce ==
    (call.op = "run" /\ call.lines # <<>>) =>
        LET n == Len(call.lines)
        IN  /\ ~Terminated(call.input)
            /\ \A i \in 1..(n - 1) : ~Terminated(call.lines[i])
            /\ Terminated(call.lines[n]) =>
                  (call.queries = <<NewlineJoined(<<call.input>> \o call.lines)>> /\ call.gate <= 1)
            /\ ~Terminated(call.lines[n]) => (call.queries = <<>> /\ call.gate = 0)

C21_Witness ==
    /\ call.op = "run"
    /\ connection # NoneHandle
    /\ call.input = "select *"
    /\ call.lines = <<"from t; ">>
    /\ call.queries = <<"select *\nfrom t; ">>
    /\ call.success

\* C27: a line typed at the continuation prompt that reads like a command is
\* text of the statement: the pass leaves running, auto_commit and the
\* connection as they were, and the statement executed, if any, holds the line.
C27_ContinuationIsText ==
    [][(call'.op = "run" /\ \E i \in 1..Len(call'.lines) : call'.lines[i] \in MetaTokens) =>
          /\ running' = running
          /\ auto_commit' = auto_commit
          /\ connection' = connection /\ db_type' = db_type /\ opened' = opened
          /\ \A i \in 1..Len(call'.queries) :
                \A j \in 1..Len(call'.lines) : Contains(call'.queries[i], call'.lines[j])]_vars

C27_Witness ==
    /\ call.op = "run"
    /\ call.lines = <<"autocommit off", "connect sqlite other.db", "Exit ;">>
    /\ call.queries = <<"select *\nautocommit off\nconnect sqlite other.db\nExit ;">>
    /\ auto_commit /\ running /\ pc = "loop"
    /\ connection # NoneHandle /\ opened = 1

-----------------------------------------------------------------------------
(* Properties of format_tabular_output                                     *)

\* what each value of the results above reads as, and the header names
CellTexts ==
    {<<StrCell("a"), "a">>, <<StrCell(""), "">>, <<StrCell("a b"), "a b">>,
     <<IntCell(0 - 12), "-12">>, <<IntCell(7), "7">>, <<IntCell(100), "100">>,
     <<NoneCell, "None">>}

TextOf(cell) == (CHOOSE p \in CellTexts : p[1] = cell)[2]

\* every row has as many cells as there are headers
Rectangular(data, headers) == \A k \in 1..Len(data) : Len(data[k]) = Len(headers)

\* 2 + the longest text of column i, the header included
ColumnWidth(data, headers, i) ==
    LET lengths == {Len(headers[i])} \cup {Len(TextOf(data[k][i])) : k \in 1..Len(data)}
    IN  2 + CHOOSE m \in lengths : \A l \in lengths : l <= m

RECURSIVE SumTo(_, _)
SumTo(f, n) == IF n = 0 THEN 0 ELSE f[n] + SumTo(f, n - 1)

\* C22: for a result that is not empty, with headers and as many cells in
\* every row as there are headers, the table has a top border, the header
\* row, a separator, one line per row and a bottom border; column i takes
\* 2 + the longest text of the column, the header included; every cell starts
\* its column; and all the lines are equally long.
C22_ColumnsAligned ==
    (call.op = "format_tabular_output" /\ call.rows # <<>> /\ call.headers # <<>>
        /\ Rectangular(call.rows, call.headers)) =>
        LET n == Len(call.headers)
            w == [i \in 1..n |-> ColumnWidth(call.rows, call.headers, i)]
            start == [i \in 1..(n + 1) |-> 1 + SumTo(w, i - 1) + (i - 1)]
            total == SumTo(w, n) + n + 1
            lines == call.listing
            Cell(k, i) == IF k = 2 THEN call.headers[i] ELSE TextOf(call.rows[k - 3][i])
        IN  /\ call.exc = NoneStr
            /\ Len(lines) = Len(call.rows) + 4
            /\ \A k \in 1..Len(lines) : Len(lines[k]) = total
            /\ \A k \in {1, 3, Len(lines)} : \A p \in 1..total :
                  Chr(lines[k], p) = IF \E i \in 1..(n + 1) : start[i] = p THEN "+" ELSE "-"
            /\ \A k \in (1..Len(lines)) \ {1, 3, Len(lines)} : \A i \in 1..n :
                  /\ Chr(lines[k], start[i]) = "|"
                  /\ SubSeq(lines[k], start[i] + 1, start[i] + Len(Cell(k, i))) = Cell(k, i)
                  /\ \A p \in (start[i] + Len(Cell(k, i)) + 1)..(start[i + 1] - 1) :
                        Chr(lines[k], p) = " "
            /\ \A k \in (1..Len(lines)) \ {1, 3, Len(lines)} : Chr(lines[k], total) = "|"

C22_Witness ==
    /\ call.op = "format_tabular_output"
    /\ call.headers = <<"X", "name">>
    /\ call.rows = << <<NoneCell, StrCell("a b")>>, <<IntCell(100), NoneCell>> >>
    /\ call.listing = <<"+------+------+",
                        "|X     |name  |",
                        "+------+------+",
                        "|None  |a b   |",
                        "|100   |None  |",
                        "+------+------+">>

\* C23: for a result without rows the text is the no-rows message, the same
\* four lines whatever the headers.
C23_NoRowsMessage ==
    (call.op = "format_tabular_output" /\ call.rows = <<>>) =>
        /\ call.exc = NoneStr
        /\ call.message
              = "+- Query Result\n|  Status: No rows found\n|  Rows: 0\n+- End of result"

C23_Witness ==
    /\ call.op = "format_tabular_output"
    /\ call.rows = <<>>
    /\ call.headers = <<"name", "X">>
    /\ Len(call.listing) = 4
    /\ call.listing[2] = "|  Status: No rows found"

-----------------------------------------------------------------------------
(* Properties of the connection state                                      *)

Dialects == {"SQLite", "MySQL", "PostgreSQL"}

\* the dialect named by the second word of a connect command
TypedDialect(user_input) ==
    LET word == lower(split(user_input)[2])
    IN  CASE word = "sqlite" -> "SQLite"
          [] word = "mysql" -> "MySQL"
          [] word = "postgresql" -> "PostgreSQL"
          [] OTHER -> NoneStr

\* the parameters kept for a connection of the dialect made with `args`
ParametersFor(dialect, args) ==
    IF dialect = "SQLite" THEN << <<"path", args[1]>> >>
    ELSE << <<"host", args[1]>>, <<"user", args[2]>>, <<"database", args[4]>>,
            <<"port", IF dialect = "MySQL" THEN 3306 ELSE 5432>> >>

\* C24: a connect command that opens no handle (the driver is missing, its
\* connect() raises, or the parameters are too few) leaves the connection, the
\* dialect and the connection parameters as they were, and is_connected()
\* gives what it gave before.
C24_FailedConnectKeepsState ==
    [][(reads' # reads /\ call'.input \in MetaConnects /\ opened' = opened) =>
          /\ connection' = connection
          /\ db_type' = db_type
          /\ connection_params' = connection_params
          /\ (connection' # NoneHandle) <=> (connection # NoneHandle)
          /\ live' = live]_vars

\* the MySQL driver refused a connection while one to SQLite was active
C24_Witness ==
    /\ call.op = "run"
    /\ call.input = "CONNECT MySQL db1 Root Pw shop"
    /\ call.driver = <<"connect">>
    /\ call.args = <<"db1", "root", "pw", "shop">>
    /\ connection = 1 /\ opened = 1
    /\ db_type = "SQLite"
    /\ connection_params = << <<"path", "app.db">> >>

\* C25: when is_connected() holds, the connection is the handle opened last,
\* the dialect is SQLite, MySQL or PostgreSQL, and the dialect and the
\* parameters are those of the connect command that opened it: a command that
\* opens a handle sets them from what it gave the driver, and nothing else
\* changes them.
C25_DescribesActiveHandle ==
    /\ [](connection # NoneHandle =>
            (connection = opened /\ db_type \in Dialects /\ connection_params # <<>>))
    /\ [][/\ opened' # opened =>
               /\ call'.input \in MetaConnects
               /\ connection' = opened' /\ opened' = opened + 1
               /\ db_type' = TypedDialect(call'.input)
               /\ connection_params' = ParametersFor(db_type', call'.args)
          /\ opened' = opened =>
               (db_type' = db_type /\ connection_params' = connection_params
                  /\ connection' = connection)]_vars

\* a PostgreSQL connection made after a SQLite one, and a command after it
C25_Witness ==
    /\ call.op = "run"
    /\ call.input = "\\dt"
    /\ connection = 2 /\ opened = 2
    /\ db_type = "PostgreSQL"
    /\ connection_params = << <<"host", "db1">>, <<"user", "root">>,
                              <<"database", "shop">>, <<"port", 5432>> >>
    /\ call.queries # <<>>

\* C26: auto_commit is true at the start; autocommit on sets it and autocommit
\* off clears it, whatever it was and with or without a connection, and both
\* leave the connection, the history and the database contents alone; no
\* other command, and no statement, changes the flag.
C26_OnlyAutocommitSetsFlag ==
    /\ auto_commit = TRUE
    /\ [][IF reads' # reads /\ call'.input \in {"autocommit on", "autocommit off"}
          THEN /\ auto_commit' = (call'.input = "autocommit on")
               /\ connection' = connection /\ db_type' = db_type /\ live' = live
               /\ history' = history /\ persisted' = persisted
               /\ db_working' = db_working /\ db_committed' = db_committed
               /\ call'.driver = <<>>
          ELSE auto_commit' = auto_commit]_vars

\* autocommit off typed a second time, a statement executed in between
C26_Witness ==
    /\ call.op = "run"
    /\ call.input = "autocommit off"
    /\ ~auto_commit
    /\ connection # NoneHandle
    /\ Len(history) = 1
    /\ db_working = 1 /\ db_committed = 0

-----------------------------------------------------------------------------
(* Properties of the history file                                          *)

====
